---- MODULE Spec2Model ----
(***************************************************************************)
(* State-machine model of the expense tracker in src/AI_hackathon.py:      *)
(* the module-level record store (expenses, expense_id_counter), the       *)
(* insertion operation add_expense, the query filter_expenses, the two     *)
(* chart aggregations, the extraction adapter parse_expenses_via_gemini    *)
(* and the intent resolver execute_agent_command.                          *)
(*                                                                         *)
(* Python values are tagged records:                                       *)
(*   [t |-> "none"]                    None / JSON null                    *)
(*   [t |-> "missing"]                 a key absent from a JSON object     *)
(*   [t |-> "str", s |-> <<chars>>]    a string that is not a date         *)
(*   [t |-> "date", day, canon]        a string strptime('%Y-%m-%d')       *)
(*                                     accepts; canon = zero-padded form   *)
(*   [t |-> "num", v |-> mills]        a finite float, in thousandths      *)
(*   [t |-> "nan"]                     the float NaN                       *)
(* A Python exception is the name of its class.                            *)
(***************************************************************************)
EXTENDS Integers, Sequences, FiniteSets, TLC

VARIABLES
    expenses,            \* the module-level list `expenses`
    expense_id_counter,  \* the module-level `expense_id_counter`
    last,                \* the call that has just returned, with its outcome
    pc,                  \* concurrent callers: position inside add_expense
    arg,                 \* concurrent callers: the `amount` argument
    next_id,             \* concurrent callers: local `next_id` of get_next_id
    tmp                  \* concurrent callers: value loaded by `counter += 1`

vars == <<expenses, expense_id_counter, last, pc, arg, next_id, tmp>>

\* ------------------------------------------------------------------ bounds
MaxExpenses == 2   \* records the store may hold
MaxCounter == 3    \* largest id add_expense may hand out
MaxBatch == 2      \* elements of one extraction batch
NumThreads == 2    \* concurrent callers of add_expense

\* ---------------------------------------------------------- Python values
None == [t |-> "none"]
Missing == [t |-> "missing"]
NaN == [t |-> "nan"]
Str(s) == [t |-> "str", s |-> s]
Num(m) == [t |-> "num", v |-> m]
DateStr(d, c) == [t |-> "date", day |-> d, canon |-> c]

IsString(v) == v.t \in {"str", "date"}

\* Python truthiness (`if category:`, `tags if tags else []`).
Truthy(v) == CASE v.t = "str" -> v.s # <<>>
               [] v.t = "date" -> TRUE
               [] v.t = "num" -> v.v # 0
               [] v.t = "nan" -> TRUE
               [] v.t = "list" -> v.items # <<>>
               [] OTHER -> FALSE

\* str.strip(): drop leading and trailing whitespace.
RECURSIVE LStrip(_)
LStrip(s) == IF s = <<>> THEN s
             ELSE IF Head(s) = " " THEN LStrip(Tail(s)) ELSE s

RECURSIVE RStrip(_)
RStrip(s) == IF s = <<>> THEN s
             ELSE IF s[Len(s)] = " " THEN RStrip(SubSeq(s, 1, Len(s) - 1)) ELSE s

Strip(s) == RStrip(LStrip(s))

\* str.lower() on the characters the inputs use.
LowerChar(c) == CASE c = "A" -> "a"
                  [] c = "B" -> "b"
                  [] c = "T" -> "t"
                  [] OTHER -> c

Lower(s) == [i \in 1..Len(s) |-> LowerChar(s[i])]

\* round(x, 2) on a float given in thousandths: the nearest hundredth.  A
\* tie (last digit 5) is exact in binary only for multiples of 1/8, where
\* Python rounds half to even; the inputs below hold no other tie.
Round2(m) ==
    LET r == m % 10
        down == m - r
        up == m + (10 - r)
    IN  IF r < 5 THEN down
        ELSE IF r > 5 THEN up
        ELSE IF (down \div 10) % 2 = 0 THEN down ELSE up

\* datetime.date.today(), as a day number; day 1 is before it, day 3 after.
Today == 2

\* ------------------------------------------------------- 1. utilities
\* get_next_id: returns the counter and leaves it incremented.
get_next_id(counter) == [id |-> counter, counter |-> counter + 1]

\* format_date: strptime raises ValueError on a malformed string, which is
\* caught (today); on a non-string it raises TypeError, which is not.
format_date(date_str) ==
    IF date_str.t = "date"
    THEN [raised |-> FALSE, value |-> DateStr(date_str.day, TRUE)]
    ELSE IF date_str.t = "str"
    THEN [raised |-> FALSE, value |-> DateStr(Today, TRUE)]
    ELSE [raised |-> TRUE, exc |-> "TypeError"]

\* float(amount): the coercion of add_expense's first argument.
float(amount) ==
    IF amount.t \in {"num", "nan"} THEN [raised |-> FALSE, value |-> amount]
    ELSE IF amount.t \in {"str", "date"} THEN [raised |-> TRUE, exc |-> "ValueError"]
    ELSE [raised |-> TRUE, exc |-> "TypeError"]

\* round(float(amount), 2)
RoundAmount(x) == IF x.t = "nan" THEN NaN ELSE Num(Round2(x.v))

\* category.strip().lower() / t.strip().lower()
StripLower(v) == Str(Lower(Strip(v.s)))

\* [t.strip().lower() for t in (tags if tags else [])]
List(items) == [t |-> "list", items |-> items]

NormTags(tags) ==
    IF Truthy(tags) THEN [i \in 1..Len(tags.items) |-> StripLower(tags.items[i])]
    ELSE <<>>

\* Variant of AppendExpense: the record is inserted at the head.
PrependExpense(store, rec) == <<rec>> \o store

\* expenses.append(new_expense)
AppendExpense(store, rec) == Append(store, rec)

\* ------------------------------------------------------- 2. add_expense
\* The dict literal evaluates its values in order: id (the counter moves),
\* amount, category, date, description, tags; the first value that raises
\* ends the call with the counter already incremented and nothing appended.
add_expense(store, counter, amount, category, description, date, tags) ==
    LET g == get_next_id(counter)
        a == float(amount)
        d == format_date(date)
        Fail(e) == [raised |-> TRUE, exc |-> e, expenses |-> store,
                    counter |-> g.counter, ret |-> None]
    IN  IF a.raised THEN Fail(a.exc)
        ELSE IF ~IsString(category) THEN Fail("AttributeError")
        ELSE IF d.raised THEN Fail(d.exc)
        ELSE IF ~IsString(description) THEN Fail("AttributeError")
        ELSE LET new_expense ==
                     [id |-> g.id,
                      amount |-> RoundAmount(a.value),
                      category |-> StripLower(category),
                      date |-> d.value,
                      description |-> Str(Strip(description.s)),
                      tags |-> NormTags(tags)]
             IN  [raised |-> FALSE, exc |-> "",
                  expenses |-> AppendExpense(store, new_expense),
                  counter |-> g.counter, ret |-> new_expense]

\* ------------------------------------------------------- filter_expenses
\* [exp for exp in filtered_list if P(exp)]
Select(seq, P(_)) == SelectSeq(seq, P)

\* sum(exp['amount'] for exp in filtered_list): a NaN term makes the sum NaN.
RECURSIVE SumAmounts(_)
SumAmounts(seq) ==
    IF seq = <<>> THEN Num(0)
    ELSE LET rest == SumAmounts(Tail(seq))
             a == Head(seq).amount
         IN  IF a.t = "nan" \/ rest.t = "nan" THEN NaN ELSE Num(a.v + rest.v)

\* exp['date'] >= start_date, on canonical YYYY-MM-DD strings.
DateGE(d, bound) == d.day >= bound.day

\* Variant of DateLE: the end bound is exclusive.
DateLEExclusive(d, bound) == d.day < bound.day

\* exp['date'] <= end_date
DateLE(d, bound) == d.day <= bound.day

\* `if category:` ... `if end_date:`: whether a criterion is applied.
Applies(criterion) == Truthy(criterion)

\* The four steps of filter_expenses, each narrowing filtered_list; the
\* result is the printed list and the total of the summary string.  A
\* truthy criterion that is no string raises at .strip() / strptime.
filter_expenses(store, category, tag, start_date, end_date) ==
    LET Fail(e) == [raised |-> TRUE, exc |-> e]
        l0 == store
        cat_lower == StripLower(category)
        l1 == IF Applies(category)
              THEN Select(l0, LAMBDA exp : exp.category = cat_lower) ELSE l0
        tag_lower == StripLower(tag)
        InTags(exp) == \E i \in 1..Len(exp.tags) : exp.tags[i] = tag_lower
        l2 == IF Applies(tag) THEN Select(l1, InTags) ELSE l1
        sd == format_date(start_date)
        l3 == IF Applies(start_date)
              THEN Select(l2, LAMBDA exp : DateGE(exp.date, sd.value)) ELSE l2
        ed == format_date(end_date)
        l4 == IF Applies(end_date)
              THEN Select(l3, LAMBDA exp : DateLE(exp.date, ed.value)) ELSE l3
    IN  IF Applies(category) /\ ~IsString(category) THEN Fail("AttributeError")
        ELSE IF Applies(tag) /\ ~IsString(tag) THEN Fail("AttributeError")
        ELSE IF Applies(start_date) /\ sd.raised THEN Fail(sd.exc)
        ELSE IF Applies(end_date) /\ ed.raised THEN Fail(ed.exc)
        ELSE [raised |-> FALSE, exc |-> "", items |-> l4,
              count |-> Len(l4), total |-> SumAmounts(l4)]

\* ------------------------------------------------------- aggregations
\* create_dataframe: None for an empty list; otherwise the rows whose amount
\* pd.to_numeric keeps (NaN rows are dropped; stored dates always parse).
create_dataframe(store) ==
    IF store = <<>> THEN None
    ELSE List(Select(store, LAMBDA exp : exp.amount.t # "nan"))

Column(rows, field) == {rows[i][field] : i \in 1..Len(rows)}

\* df.groupby(field)['amount'].sum()
GroupSum(rows, field) ==
    [k \in Column(rows, field) |->
        SumAmounts(Select(rows, LAMBDA exp : exp[field] = k))]

NotEnoughData(df) == df = None \/ df.items = <<>>

\* plot_category_distribution: the message string when the frame is None or
\* empty, else the pie figure over the per-category sums.
plot_category_distribution(store) ==
    LET df == create_dataframe(store)
    IN  IF NotEnoughData(df) THEN Str(<<"not enough data">>)
        ELSE [t |-> "figure", kind |-> "pie", data |-> GroupSum(df.items, "category")]

\* plot_spending_trend: likewise, the line figure over the per-date sums.
plot_spending_trend(store) ==
    LET df == create_dataframe(store)
    IN  IF NotEnoughData(df) THEN Str(<<"not enough data">>)
        ELSE [t |-> "figure", kind |-> "line", data |-> GroupSum(df.items, "date")]

\* ------------------------------------------- parse_expenses_via_gemini
\* A JSON object of the batch: a key is a value or Missing.
Item(amount, category, description, date) ==
    [t |-> "obj", amount |-> amount, category |-> category,
     description |-> description, date |-> date]

\* item.get(key) / item.get(key, default)
Get(item, key, default) == IF item[key] = Missing THEN default ELSE item[key]

\* The `for item in expenses_list` loop: each element goes through
\* add_expense at once; item.get on an element that is no object raises
\* AttributeError; the first exception leaves the loop with the earlier
\* elements appended.
RECURSIVE AddAll(_, _, _, _)
AddAll(store, counter, items, parsed_count) ==
    IF items = <<>>
    THEN [raised |-> FALSE, exc |-> "", expenses |-> store, counter |-> counter,
          count |-> parsed_count]
    ELSE LET item == Head(items)
         IN  IF item.t # "obj"
             THEN [raised |-> TRUE, exc |-> "AttributeError", expenses |-> store,
                   counter |-> counter, count |-> parsed_count]
             ELSE LET r == add_expense(store, counter,
                                       Get(item, "amount", None),
                                       Get(item, "category", None),
                                       Get(item, "description", None),
                                       Get(item, "date", DateStr(Today, TRUE)),
                                       None)
                  IN  IF r.raised
                      THEN [raised |-> TRUE, exc |-> r.exc, expenses |-> r.expenses,
                            counter |-> r.counter, count |-> parsed_count]
                      ELSE AddAll(r.expenses, r.counter, Tail(items), parsed_count + 1)

\* The response of the structured-generation call: a non-success status
\* (raise_for_status raises), an inner text that is not JSON (json.loads
\* raises), or the parsed JSON value.
HttpError == [k |-> "http_error"]
BadJson == [k |-> "bad_json"]
Json(v) == [k |-> "json", value |-> v]

\* parse_expenses_via_gemini: (results, message).  results is None on every
\* failure; `except Exception` turns any exception into such a failure.
parse_expenses_via_gemini(store, counter, api_key, response) ==
    LET Out(ok, kind, exc, st, c, n) ==
            [ok |-> ok, kind |-> kind, exc |-> exc, expenses |-> st,
             counter |-> c, count |-> n]
    IN  IF ~Truthy(api_key) THEN Out(FALSE, "missing_key", "", store, counter, 0)
        ELSE IF response.k = "http_error"
        THEN Out(FALSE, "error", "HTTPError", store, counter, 0)
        ELSE IF response.k = "bad_json"
        THEN Out(FALSE, "error", "JSONDecodeError", store, counter, 0)
        ELSE IF response.value.t # "list"
        THEN Out(FALSE, "non_list", "", store, counter, 0)
        ELSE LET r == AddAll(store, counter, response.value.items, 0)
             IN  IF r.raised
                 THEN Out(FALSE, "error", r.exc, r.expenses, r.counter, r.count)
                 ELSE Out(TRUE, "success", "", r.expenses, r.counter, r.count)

\* ------------------------------------------------ execute_agent_command
TOOL_MAP == {"filter", "plot_distribution", "plot_trend"}

\* An intent label, and str.lower() on the labels the inputs use.
Word(w) == [t |-> "word", w |-> w]

LowerWord(w) == IF w = "FILTER" THEN "filter" ELSE w

\* The intent object: `intent` and the optional parameters; `other` stands
\* for a key that is none of filter_expenses' parameters.
IntentData(intent, category, start_date, end_date, other) ==
    [t |-> "obj", intent |-> intent, category |-> category,
     start_date |-> start_date, end_date |-> end_date, other |-> other]

\* {k: v for k, v in intent_data.items() if k != 'intent' and v is not None}
Arg(intent_data, key) ==
    IF intent_data[key] \in {Missing, None} THEN Missing ELSE intent_data[key]

\* Variant of IsFallbackIntent: only `none` takes the fallback branch.
IsFallbackIntentNoneOnly(intent) == intent = "none"

\* `elif intent == 'none' or intent == 'unhandled'`
IsFallbackIntent(intent) == intent \in {"none", "unhandled"}

\* Variant of AgentExceptCatches: only the transport error is caught.
AgentExceptCatchesTransportOnly(exc) == exc = "HTTPError"

\* `except Exception as e`
AgentExceptCatches(exc) == TRUE

\* What the try block does: raise, or return (message, chart).  tool: the
\* TOOL_MAP entry that was called; fallback: whether the second,
\* unconstrained call was issued.
AgentRaise(e, tool, fb) ==
    [raised |-> TRUE, exc |-> e, msg |-> "", chart |-> None, tool |-> tool,
     fallback |-> fb]

AgentReturn(m, chart, tool, fb) ==
    [raised |-> FALSE, exc |-> "", msg |-> m, chart |-> chart, tool |-> tool,
     fallback |-> fb]

\* A keyword argument of the tool call: absent ones take the default None.
Kw(intent_data, key) ==
    IF intent_data[key] \in {Missing, None} THEN None ELSE intent_data[key]

\* `return f"Done! {tool_output}", None` after filter_expenses
FilterToolResult(f) ==
    IF f.raised THEN AgentRaise(f.exc, "filter", FALSE)
    ELSE AgentReturn("filter_done", None, "filter", FALSE)

\* TOOL_MAP['filter'](**args): a key that is no parameter of
\* filter_expenses is a TypeError.
RunFilterTool(store, intent_data) ==
    IF Arg(intent_data, "other") # Missing THEN AgentRaise("TypeError", "", FALSE)
    ELSE FilterToolResult(filter_expenses(store, Kw(intent_data, "category"), None,
                                          Kw(intent_data, "start_date"),
                                          Kw(intent_data, "end_date")))

\* `if intent.startswith('plot')`: a string is the chart function's error.
PlotToolResult(intent, tool_output) ==
    IF tool_output.t = "str" THEN AgentReturn("charting_failed", None, intent, FALSE)
    ELSE AgentReturn("chart_ok", tool_output, intent, FALSE)

\* TOOL_MAP[intent](**args) for the two chart functions (any **kwargs).
RunPlotTool(store, intent) ==
    PlotToolResult(intent, IF intent = "plot_distribution"
                           THEN plot_category_distribution(store)
                           ELSE plot_spending_trend(store))

\* The second, unconstrained call and its text.
Fallback(reply) ==
    IF reply.k = "http_error" THEN AgentRaise("HTTPError", "", TRUE)
    ELSE IF reply.k = "bad_json" THEN AgentRaise("JSONDecodeError", "", TRUE)
    ELSE AgentReturn("reply_text", None, "", TRUE)

\* `if intent in TOOL_MAP: ... elif ...: ... return "Agent could not map"`
Dispatch(store, intent, intent_data, reply) ==
    IF intent \in TOOL_MAP
    THEN IF store = <<>> THEN AgentReturn("no_expenses", None, "", FALSE)
         ELSE IF intent = "filter" THEN RunFilterTool(store, intent_data)
         ELSE RunPlotTool(store, intent)
    ELSE IF IsFallbackIntent(intent) THEN Fallback(reply)
    ELSE AgentReturn("could_not_map", None, "", FALSE)

\* intent_data.get('intent', 'none').lower(): a null intent has no .lower()
ResolveIntent(store, intent_data, raw, reply) ==
    IF raw.t # "word" THEN AgentRaise("AttributeError", "", FALSE)
    ELSE Dispatch(store, LowerWord(raw.w), intent_data, reply)

\* The body of the try block.
AgentBody(store, response, reply) ==
    IF response.k = "http_error" THEN AgentRaise("HTTPError", "", FALSE)
    ELSE IF response.k = "bad_json" THEN AgentRaise("JSONDecodeError", "", FALSE)
    ELSE IF response.value.t # "obj" THEN AgentRaise("AttributeError", "", FALSE)
    ELSE ResolveIntent(store, response.value,
                       Get(response.value, "intent", Word("none")), reply)

\* The try/except around the body. escaped: an exception left the function.
HandleExceptions(b) ==
    IF ~b.raised
    THEN [escaped |-> FALSE, msg |-> b.msg, chart |-> b.chart,
          tool |-> b.tool, fallback |-> b.fallback, exc |-> ""]
    ELSE IF AgentExceptCatches(b.exc)
    THEN [escaped |-> FALSE, msg |-> "internal_error", chart |-> None,
          tool |-> b.tool, fallback |-> b.fallback, exc |-> b.exc]
    ELSE [escaped |-> TRUE, msg |-> "", chart |-> None,
          tool |-> b.tool, fallback |-> b.fallback, exc |-> b.exc]

\* execute_agent_command: (message, chart or None).
execute_agent_command(store, api_key, response, reply) ==
    IF ~Truthy(api_key)
    THEN [escaped |-> FALSE, msg |-> "missing_key", chart |-> None,
          tool |-> "", fallback |-> FALSE, exc |-> ""]
    ELSE HandleExceptions(AgentBody(store, response, reply))

\* ----------------------------------------------------------- inputs
\* Arguments of a direct add_expense call.
AmountInputs == {Num(1004), Num(-1496), NaN, Str(<<"x">>)}
CategoryInputs == {Str(<<" ", "A">>), None}
DescriptionInputs == {Str(<<"m", " ">>)}
DateInputs == {DateStr(1, FALSE), Str(<<"x">>), Str(<<>>), None}
TagsInputs == {None}

\* Arguments of add_expense and filter_expenses for the query engine.
QAmountInputs == {Num(1004), Num(-1496)}
QCategoryInputs == {Str(<<" ", "A">>), Str(<<" ">>)}
QDateInputs == {DateStr(1, FALSE), Str(<<"x">>)}
QTagsInputs == {None, List(<<Str(<<"T", " ">>)>>)}
QCategoryCriteria == {None, Str(<<>>), Str(<<" ">>), Str(<<"A", " ">>)}
QTagCriteria == {None, Str(<<>>), Str(<<" ", "T">>)}
QStartCriteria == {None, Str(<<>>), Str(<<"x">>)}
QEndCriteria == {None, Str(<<>>), DateStr(1, FALSE)}

\* Arguments of a direct filter_expenses call beside the other operations.
CategoryCriteria == {None, Str(<<"A", " ">>)}
StartCriteria == {None, Str(<<"x">>)}
EndCriteria == {None, DateStr(1, FALSE)}

\* Elements of an extraction batch: well-formed; no `date` key; `date`
\* null; no `category` key; a negative amount.
ItemInputs ==
    {Item(Num(1004), Str(<<" ", "A">>), Str(<<"m", " ">>), DateStr(1, FALSE)),
     Item(Num(1004), Str(<<" ", "A">>), Str(<<"m", " ">>), Missing),
     Item(Num(1004), Str(<<" ", "A">>), Str(<<"m", " ">>), None),
     Item(Num(1004), Missing, Str(<<"m", " ">>), DateStr(1, FALSE)),
     Item(Num(-1496), Str(<<" ", "A">>), Str(<<"m", " ">>), DateStr(1, FALSE))}

Batches == UNION {[1..n -> ItemInputs] : n \in 0..MaxBatch}

ParseResponses ==
    {HttpError, BadJson, Json(Item(Num(1004), Missing, Missing, Missing))}
        \cup {Json(List(b)) : b \in Batches}

ApiKeys == {Str(<<"k">>), Str(<<>>)}

\* What the intent call can answer.
IntentInputs ==
    {Missing, None, Word("filter"), Word("FILTER"), Word("plot_distribution"),
     Word("plot_trend"), Word("none"), Word("unhandled"), Word("summarize")}

ParamInputs ==
    {<<Missing, Missing, Missing>>, <<Str(<<"A", " ">>), Missing, Missing>>,
     <<None, Str(<<"x">>), Missing>>, <<Missing, Missing, Num(1000)>>,
     <<Num(1000), Missing, Missing>>}

AgentResponses ==
    {HttpError, BadJson, Json(List(<<>>))}
        \cup {Json(IntentData(i, p[1], p[2], Missing, p[3])) :
                  i \in IntentInputs, p \in ParamInputs}

Text == [k |-> "text"]

AgentReplies == {HttpError, BadJson, Text}

\* ----------------------------------------------------------- actions
Idle == [op |-> "idle"]

Threads == 1..NumThreads

CanCall == /\ last = Idle
           /\ \A t \in Threads : pc[t] = "idle"

CanAdd(n) == /\ Len(expenses) + n <= MaxExpenses
             /\ expense_id_counter + n - 1 <= MaxCounter

\* A direct call of add_expense.
AddExpense(amount, category, description, date, tags) ==
    /\ CanCall
    /\ CanAdd(1)
    /\ LET r == add_expense(expenses, expense_id_counter, amount, category,
                            description, date, tags)
       IN  /\ expenses' = r.expenses
           /\ expense_id_counter' = r.counter
           /\ last' = [op |-> "add", raised |-> r.raised, exc |-> r.exc,
                       ret |-> r.ret, amount |-> amount, category |-> category,
                       description |-> description, date |-> date,
                       before |-> expenses]
    /\ UNCHANGED <<pc, arg, next_id, tmp>>

\* A direct call of filter_expenses.
FilterExpenses(category, tag, start_date, end_date) ==
    /\ CanCall
    /\ last' = [op |-> "filter", category |-> category, tag |-> tag,
                start_date |-> start_date, end_date |-> end_date,
                result |-> filter_expenses(expenses, category, tag,
                                           start_date, end_date)]
    /\ UNCHANGED <<expenses, expense_id_counter, pc, arg, next_id, tmp>>

\* A direct call of one of the two chart functions.
Plot(intent) ==
    /\ CanCall
    /\ last' = [op |-> "plot", intent |-> intent,
                result |-> IF intent = "plot_distribution"
                           THEN plot_category_distribution(expenses)
                           ELSE plot_spending_trend(expenses)]
    /\ UNCHANGED <<expenses, expense_id_counter, pc, arg, next_id, tmp>>

\* The Submit handler: parse_expenses_via_gemini on one response.
ParseExpenses(api_key, response) ==
    /\ CanCall
    /\ response.k = "json" /\ response.value.t = "list"
           => CanAdd(Len(response.value.items))
    /\ LET r == parse_expenses_via_gemini(expenses, expense_id_counter,
                                          api_key, response)
       IN  /\ expenses' = r.expenses
           /\ expense_id_counter' = r.counter
           /\ last' = [op |-> "parse", ok |-> r.ok, kind |-> r.kind, exc |-> r.exc,
                       count |-> r.count, before |-> expenses]
    /\ UNCHANGED <<pc, arg, next_id, tmp>>

\* The agent handler: execute_agent_command on the answers of its calls.
AgentRecord(api_key, response, r) ==
    [op |-> "agent", key |-> Truthy(api_key), response |-> response,
     escaped |-> r.escaped, msg |-> r.msg, chart |-> r.chart,
     tool |-> r.tool, fallback |-> r.fallback, exc |-> r.exc]

ExecuteAgent(api_key, response, reply) ==
    /\ CanCall
    /\ last' = AgentRecord(api_key, response,
                           execute_agent_command(expenses, api_key, response, reply))
    /\ UNCHANGED <<expenses, expense_id_counter, pc, arg, next_id, tmp>>

\* The handler is over (st.rerun()); the next one can start.
Return ==
    /\ last # Idle
    /\ last' = Idle
    /\ UNCHANGED <<expenses, expense_id_counter, pc, arg, next_id, tmp>>

Init ==
    /\ expenses = <<>>
    /\ expense_id_counter = 1
    /\ last = Idle
    /\ pc = [t \in Threads |-> "idle"]
    /\ arg = [t \in Threads |-> None]
    /\ next_id = [t \in Threads |-> 0]
    /\ tmp = [t \in Threads |-> 0]

Next ==
    \/ \E a \in AmountInputs, c \in CategoryInputs, s \in DescriptionInputs,
          d \in DateInputs, g \in TagsInputs : AddExpense(a, c, s, d, g)
    \/ \E c \in CategoryCriteria, s \in StartCriteria, e \in EndCriteria :
          FilterExpenses(c, None, s, e)
    \/ \E i \in {"plot_distribution", "plot_trend"} : Plot(i)
    \/ \E k \in ApiKeys, r \in ParseResponses : ParseExpenses(k, r)
    \/ \E k \in ApiKeys, r \in AgentResponses, y \in AgentReplies :
          ExecuteAgent(k, r, y)
    \/ Return

Spec == Init /\ [][Next]_vars

\* ------------------------------------------------ concurrent callers
\* Several callers inside add_expense at once on the module-level store,
\* which holds no lock: each statement that reads or writes a global is one
\* step, and the steps of different callers interleave freely.
InFlight == Cardinality({t \in Threads : pc[t] # "idle"})

\* A caller enters add_expense.
CallAdd(t, amount) ==
    /\ last = Idle
    /\ pc[t] = "idle"
    /\ Len(expenses) + InFlight < MaxExpenses
    /\ expense_id_counter + InFlight <= MaxCounter
    /\ pc' = [pc EXCEPT ![t] = "read"]
    /\ arg' = [arg EXCEPT ![t] = amount]
    /\ UNCHANGED <<expenses, expense_id_counter, last, next_id, tmp>>

\* get_next_id: next_id = expense_id_counter
ReadCounter(t) ==
    /\ pc[t] = "read"
    /\ next_id' = [next_id EXCEPT ![t] = expense_id_counter]
    /\ pc' = [pc EXCEPT ![t] = "load"]
    /\ UNCHANGED <<expenses, expense_id_counter, last, arg, tmp>>

\* get_next_id: expense_id_counter += 1, the load of the global
LoadCounter(t) ==
    /\ pc[t] = "load"
    /\ tmp' = [tmp EXCEPT ![t] = expense_id_counter]
    /\ pc' = [pc EXCEPT ![t] = "store"]
    /\ UNCHANGED <<expenses, expense_id_counter, last, arg, next_id>>

\* get_next_id: expense_id_counter += 1, the store to the global
StoreCounter(t) ==
    /\ pc[t] = "store"
    /\ expense_id_counter' = tmp[t] + 1
    /\ pc' = [pc EXCEPT ![t] = "build"]
    /\ UNCHANGED <<expenses, last, arg, next_id, tmp>>

\* add_expense: the rest of the dict literal, with the id get_next_id
\* returned, and expenses.append; an amount float() rejects ends the call.
BuildAndAppend(t) ==
    /\ pc[t] = "build"
    /\ expenses' = add_expense(expenses, next_id[t], arg[t], Str(<<" ", "A">>),
                               Str(<<"m", " ">>), DateStr(1, FALSE), None).expenses
    /\ pc' = [pc EXCEPT ![t] = "idle"]
    /\ arg' = [arg EXCEPT ![t] = None]
    /\ UNCHANGED <<expense_id_counter, last, next_id, tmp>>

ConcAmountInputs == {Num(1004), Str(<<"x">>)}

NextConc ==
    \E t \in Threads :
        \/ \E a \in ConcAmountInputs : CallAdd(t, a)
        \/ ReadCounter(t)
        \/ LoadCounter(t)
        \/ StoreCounter(t)
        \/ BuildAndAppend(t)

SpecConc == Init /\ [][NextConc]_vars

\* The query engine over stores of varied categories, tags and dates.
NextQuery ==
    \/ \E a \in QAmountInputs, c \in QCategoryInputs, s \in DescriptionInputs,
          d \in QDateInputs, g \in QTagsInputs : AddExpense(a, c, s, d, g)
    \/ \E c \in QCategoryCriteria, t \in QTagCriteria, s \in QStartCriteria,
          e \in QEndCriteria : FilterExpenses(c, t, s, e)
    \/ Return

SpecQuery == Init /\ [][NextQuery]_vars

\* ------------------------------------------------------------- claims
WellFormedDate(d) == d.t = "date" /\ d.canon

ValidAmount(a) == a.t = "num" /\ a.v >= 0

\* C1: from a fresh store, the ids of the successfully added records are
\* exactly 1, 2, ..., n in call order, whatever calls failed in between.
C1_IdsAreOneToN ==
    \A i \in 1..Len(expenses) : expenses[i].id = i

\* C2: whenever parse_expenses_via_gemini reports a failure, the store
\* holds exactly the records it held before the call (all-or-nothing).
C2_FailedBatchCommitsNothing ==
    (last.op = "parse" /\ ~last.ok) => expenses = last.before

\* C3: every stored record has an amount that is a number >= 0.
C3_AmountsNonNegative ==
    \A i \in 1..Len(expenses) : ValidAmount(expenses[i].amount)

\* The agent call whose first external call answered an object with this
\* intent label.
AgentResolved(label) ==
    /\ last.op = "agent"
    /\ last.key
    /\ last.response.k = "json"
    /\ last.response.value.t = "obj"
    /\ last.response.value.intent = Word(label)

\* C4: on an empty store a filter / plot_distribution / plot_trend intent
\* returns the "no expenses" message with no chart and calls no tool; on a
\* non-empty store plot_distribution calls the category aggregation and
\* returns a chart handle.
C4_EmptyStoreGuardAndChart ==
    /\ \A label \in TOOL_MAP :
           (AgentResolved(label) /\ expenses = <<>>)
               => (last.msg = "no_expenses" /\ last.chart = None /\ last.tool = "")
    /\ (AgentResolved("plot_distribution") /\ expenses # <<>>)
           => (last.tool = "plot_distribution" /\ last.chart.t = "figure")

NonToolLabels == {"none", "unhandled", "summarize"}

\* C5 as stated: every label that is none of the three tools leads to the
\* second, unconstrained call, whose text (or failure) is what is returned,
\* with no chart.
C5_EveryOtherLabelFallsBack ==
    \A label \in NonToolLabels :
        AgentResolved(label) =>
            /\ last.fallback
            /\ last.chart = None
            /\ last.msg \in {"reply_text", "internal_error"}

\* C5 amended: the labels `none` and `unhandled` lead to the second call,
\* whose text (or failure) is returned with no chart; any other label that
\* is none of the three tools returns the "could not map" message with no
\* chart and without the second call.
C5_FallbackOnlyForNoneAndUnhandled ==
    \A label \in NonToolLabels :
        AgentResolved(label) =>
            IF label \in {"none", "unhandled"}
            THEN /\ last.fallback
                 /\ last.chart = None
                 /\ last.msg \in {"reply_text", "internal_error"}
            ELSE /\ ~last.fallback
                 /\ last.chart = None
                 /\ last.msg = "could_not_map"

C5_Witness ==
    /\ AgentResolved("unhandled")
    /\ last.fallback
    /\ last.msg = "reply_text"

\* C6: execute_agent_command never raises; when either external call
\* fails, the response is malformed, or the tool rejects its arguments, it
\* returns an error message with no chart.
C6_AgentNeverRaises ==
    last.op = "agent" =>
        /\ ~last.escaped
        /\ (last.exc # "" \/ ~last.key)
               => (last.chart = None /\ last.msg \in {"internal_error", "missing_key"})

C6_Witness ==
    /\ last.op = "agent"
    /\ last.exc = "TypeError"
    /\ last.msg = "internal_error"
    /\ expenses # <<>>

IsGivenNonEmpty(criterion) == criterion # None /\ criterion # Str(<<>>)

\* Whether a category argument counts as supplied: any string, or only a
\* non-empty one.
SuppliedCategory(criterion, empty_counts) ==
    IF empty_counts THEN criterion # None ELSE IsGivenNonEmpty(criterion)

\* The records a filter_expenses call must return: those meeting every
\* supplied criterion, date bounds taken in canonical form and inclusive.
\* A tag or date bound is supplied when it is a non-empty string.
C7_Matches(exp, empty_counts) ==
    /\ SuppliedCategory(last.category, empty_counts) =>
           exp.category.s = Lower(Strip(last.category.s))
    /\ IsGivenNonEmpty(last.tag) =>
           Str(Lower(Strip(last.tag.s))) \in {exp.tags[i] : i \in 1..Len(exp.tags)}
    /\ IsGivenNonEmpty(last.start_date) =>
           exp.date.day >= (IF last.start_date.t = "date"
                            THEN last.start_date.day ELSE Today)
    /\ IsGivenNonEmpty(last.end_date) =>
           exp.date.day <= (IF last.end_date.t = "date"
                            THEN last.end_date.day ELSE Today)

C7_Holds(empty_counts) ==
    last.op = "filter" =>
        LET want == {i \in 1..Len(expenses) : C7_Matches(expenses[i], empty_counts)}
            got == last.result.items
        IN  /\ ~last.result.raised
            /\ Len(got) = Cardinality(want)
            /\ \A i \in want : \E j \in 1..Len(got) : got[j] = expenses[i]
            /\ \A j \in 1..Len(got) : \E i \in want : got[j] = expenses[i]
            /\ \A j, k \in 1..Len(got) : j < k => got[j].id < got[k].id
            /\ last.result.count = Len(got)
            /\ last.result.total = SumAmounts(got)
            /\ got = <<>> => last.result.total = Num(0)

\* C7 as stated: filter_expenses returns exactly the records meeting all
\* supplied criteria and the sum of their amounts, a category argument
\* that is any string (the empty one too) being a supplied criterion.
C7_AnyStringIsACategory == C7_Holds(TRUE)

\* C7 amended: filter_expenses returns, in insertion order, exactly the
\* records meeting all supplied criteria and the sum of their amounts,
\* where a category argument is supplied when it is a non-empty string
\* (whitespace-only included); the empty string, like None, is skipped.
C7_NonEmptyStringIsACategory == C7_Holds(FALSE)

C7_Witness ==
    /\ last.op = "filter"
    /\ last.category = Str(<<" ">>)
    /\ last.end_date = DateStr(1, FALSE)
    /\ last.result.count = 1
    /\ Len(expenses) = 2

\* C8: add_expense with a valid amount never fails because of its date
\* argument: a date that is no valid YYYY-MM-DD string (malformed, empty or
\* None) is stored as today; every stored date is well-formed.
C8_DateNeverFailsAdd ==
    /\ (/\ last.op = "add"
        /\ ValidAmount(last.amount)
        /\ IsString(last.category)
        /\ IsString(last.description))
           => /\ ~last.raised
              /\ last.date.t # "date" => last.ret.date = DateStr(Today, TRUE)
    /\ \A i \in 1..Len(expenses) : WellFormedDate(expenses[i].date)

\* C9: the store is append-only: a step keeps every stored record at its
\* position with all its fields, and a filter, chart or agent call leaves
\* the list and the id counter as they were.
C9_AppendOnly ==
    [][/\ Len(expenses') >= Len(expenses)
       /\ SubSeq(expenses', 1, Len(expenses)) = expenses
       /\ last'.op \in {"filter", "plot", "agent"}
              => (expenses' = expenses /\ expense_id_counter' = expense_id_counter)]_vars

C9_Witness ==
    /\ Len(expenses) = 2
    /\ expenses[1].id < expenses[2].id
    /\ last.op = "agent"
    /\ last.tool = "filter"

\* C10: with callers interleaved inside add_expense, no two stored records
\* share an id and ids increase along the list.
C10_ConcurrentIdsUniqueIncreasing ==
    \A i, j \in 1..Len(expenses) : i < j => expenses[i].id < expenses[j].id
====
